---- MODULE Spec2Model ----
(***************************************************************************)
(* Franktorio's Research Division: the backup scheduler                    *)
(* (src/datamanager/backup_manager.py) and the reconciliation pass         *)
(* (src/tasks/sync_databases.py with the room store handlers and the       *)
(* external API client).                                                   *)
(*                                                                         *)
(* File contents are integers: 0 is "no such file", c > 0 is a database    *)
(* file that passes PRAGMA integrity_check (the number identifies the      *)
(* bytes), c < 0 is a file whose bytes fail it.  Time is counted in        *)
(* scheduler polling intervals.                                            *)
(*                                                                         *)
(* The store handlers and db_integrity_check are translated from their own *)
(* lines, with the connection they obtain taken as opened:                 *)
(* database_manager.connect_db (lines 20-36) documents and annotates a     *)
(* returned sqlite3.Connection but its body ends without a return          *)
(* statement.  SpecAsWritten, further down, is the scheduler with          *)
(* connect_db translated as written; SpecCopy looks at one copy of the     *)
(* backup thread block by block, next to the store handlers.               *)
(***************************************************************************)
EXTENDS Integers, Sequences, FiniteSets, TLC

VARIABLES
    \* ---- backup scheduler
    live,           \* DB_DIR/<db>: content of each store file
    replica,        \* REPLICA_DIR/<db>: content of each replica file
    snapshots,      \* SNAPSHOT_DIR: set of files [db, mtime, data]
    actions_data,   \* action_json_handler.actions_data (flushed on every set)
    now,            \* wall clock
    pc,             \* position of the backup thread inside backup_manager
    idx,            \* position of the integrity loop in `databases`
    time_now,       \* backup_manager local: clock read at the top of the tick
    last_snapshot,  \* backup_manager local
    last_replica,   \* backup_manager local
    trace,          \* history: per store, the calls made for it in this tick
    faults,         \* history: number of damages, failed file operations and restarts so far
    failed_before,  \* history: the copies (op, db) that returned False in the previous tick
    after_restart,  \* history: the tick in progress is the first one of a restarted process
    copies,         \* history: the create_snapshot / create_replica calls of this tick
    \* ---- one store's files, block by block, while they are copied
    files,          \* the store file, its replica and one snapshot: sequences of blocks
    copy,           \* position of the backup thread inside a copy: [op, step, buf]
    handler,        \* position of a store handler inside a commit: [writing, k, v]
    seen,           \* history: the contents of the store file that handlers read
    \* ---- the run-state file, token by token, while callers save it
    actions_json,   \* ACTIONS_JSON_PATH: the content of actions.json, a sequence of tokens
    callers,        \* position of each thread inside set_action / save_actions_json
    \* ---- reconciliation
    room_db,        \* frd_room.db table room_db: the rows, in rowid order
    ext_rooms,      \* the remote data set: room name -> record
    spc,            \* position of the sync_databases task
    ext_database,   \* sync_databases local: the export, as (name, record) pairs
    db_json,        \* sync_databases local: the local rows read at the start
    missing_locally,     \* sync_databases local: bucket of (name, remote record)
    missing_externally,  \* sync_databases local: bucket of (name, local row)
    newer_locally,       \* sync_databases local: bucket of (name, local row)
    newer_externally,    \* sync_databases local: bucket of (name, remote record)
    pos,            \* position inside the bucket being applied
    events,         \* history: what this pass did, room by room
    injected,       \* history: number of failures injected so far
    passes          \* history: number of passes started

copyVars == <<files, copy, handler, seen>>

runVars == <<actions_json, callers>>

backupVars == <<live, replica, snapshots, actions_data, now, pc, idx, time_now,
                last_snapshot, last_replica, trace, faults, copies,
                after_restart, failed_before, copyVars, runVars>>

syncVars == <<room_db, ext_rooms, spc, ext_database, db_json, missing_locally,
              missing_externally, newer_locally, newer_externally, pos, events,
              injected, passes>>

vars == <<backupVars, syncVars>>

----------------------------------------------------------------------------
(* Bounds of the model *)
MaxTime == 4
MaxVer == 2
MaxFaults == 2
MaxAdvance == 2

(* config.vars values used by backup_manager (durations, in polling intervals) *)
DATABASE_ROLLOVER_INTERVAL == 1
DATABASE_REPLICATION_INTERVAL == 2
DATABASE_ROLLOVER_MAX_AGE == 3

\* database_manager.databases, in registration order
databases == <<"frd_server.db", "frd_room.db">>

Stores == {databases[i] : i \in 1..Len(databases)}

NoFile == 0

----------------------------------------------------------------------------
(* action_json_handler *)
get_action(key, default) ==
    IF key \in DOMAIN actions_data THEN actions_data[key] ELSE default

set_action(data, key, value) ==
    [k \in (DOMAIN data) \cup {key} |-> IF k = key THEN value ELSE data[k]]

\* The keys of the run state, in the order json.dump writes them here.
Keys == <<"last_snapshot_time", "last_replica_time", "last_scanner_data_refresh", "leaderboard_messages">>

\* The threads that write the run state, and the keys each of them writes:
\* the backup thread (backup_manager.py 193, 201), the scanner refresh thread
\* (scanner_data_refresher.py 305) and the event loop running the leaderboard
\* task (update_leaderboard.py 44-47, 56-59; one guild, whose message id
\* stands for the nested map).
Callers == {"backup", "scanner", "leaderboard"}

KeysOf(t) ==
    IF t = "backup" THEN {"last_snapshot_time", "last_replica_time"}
    ELSE IF t = "scanner" THEN {"last_scanner_data_refresh"}
    ELSE {"leaderboard_messages"}

Tok(kind, key, value) == [kind |-> kind, key |-> key, value |-> value]

RECURSIVE Pairs(_, _)
Pairs(data, i) ==
    IF i > Len(Keys) THEN <<>>
    ELSE (IF Keys[i] \in DOMAIN data THEN <<Tok("pair", Keys[i], data[Keys[i]])>> ELSE <<>>)
         \o Pairs(data, i + 1)

\* json.dump(actions_data, f, indent=2): an opening brace, one pair per key,
\* a closing brace.
json_dump(data) == <<Tok("{", "", 0)>> \o Pairs(data, 1) \o <<Tok("}", "", 0)>>

\* What json.load accepts: one object, its braces first and last, pairs
\* between them.
WellFormed(text) ==
    /\ Len(text) >= 2
    /\ text[1].kind = "{"
    /\ text[Len(text)].kind = "}"
    /\ \A i \in 2..(Len(text) - 1) : text[i].kind = "pair"

\* json.load(f) of a well-formed file: the last pair of a key gives its value.
json_load(text) ==
    LET keys == {text[i].key : i \in 2..(Len(text) - 1)}
        last(k) == CHOOSE i \in 2..(Len(text) - 1) :
                        /\ text[i].key = k
                        /\ \A j \in 2..(Len(text) - 1) : text[j].key = k => j <= i
    IN  [k \in keys |-> text[last(k)].value]

\* Mutant of WriteAt0: the buffer is dropped, the file stays as open left it.
WriteAt0_NoFlush(text, buf) == text

\* A file object opened with 'w' starts at offset 0 of the file it truncated:
\* its buffer replaces the first Len(buf) tokens of what the file holds when
\* the buffer is flushed.
WriteAt0(text, buf) ==
    IF Len(buf) >= Len(text) THEN buf ELSE buf \o SubSeq(text, Len(buf) + 1, Len(text))

IdleCaller == [pc |-> "idle", key |-> "", value |-> 0, buf |-> <<>>, calls |-> 0]

\* The run-state file is not looked at token by token: it is as the module
\* load created it (lines 20-23) and no caller is inside set_action.
RunIdle ==
    /\ actions_json = json_dump([k \in {} |-> 0])
    /\ callers = [t \in Callers |-> IdleCaller]

----------------------------------------------------------------------------
(* backup_manager.py: the file operations *)

\* PRAGMA integrity_check(1) on a read-only connection; a file that cannot
\* be opened raises sqlite3.DatabaseError, which is reported as False.
db_integrity_check(content) == content > 0

\* Mutant of restore_from_replica: reports success without copying the replica.
restore_from_replica_NoCopy(rep, cur) ==
    IF rep = NoFile
        THEN [ok |-> FALSE, live |-> cur]
        ELSE [ok |-> TRUE, live |-> cur]

\* [ok, live]: the result and the new content of the store file.
restore_from_replica(rep, cur) ==
    IF rep = NoFile
        THEN [ok |-> FALSE, live |-> cur]
        ELSE [ok |-> TRUE, live |-> rep]

SnapshotsOf(snaps, db) == {f \in snaps : f.db = db}

\* Mutant of SnapshotAt: the sort without reverse=True (oldest first).
SnapshotAt_OldestFirst(snaps, db, index) ==
    {f \in SnapshotsOf(snaps, db) :
        Cardinality({g \in SnapshotsOf(snaps, db) : g.mtime < f.mtime}) = index}

\* snapshots.sort(key=getmtime, reverse=True): the file at position index
\* (0-based) is the one with exactly index newer files of that store.
SnapshotAt(snaps, db, index) ==
    {f \in SnapshotsOf(snaps, db) :
        Cardinality({g \in SnapshotsOf(snaps, db) : g.mtime > f.mtime}) = index}

\* Mutant of restore_from_snapshot: an index past the end takes the oldest file.
restore_from_snapshot_Clamp(snaps, db, index, cur) ==
    IF SnapshotsOf(snaps, db) = {}
        THEN [ok |-> FALSE, live |-> cur, mtime |-> 0]
        ELSE LET n == Cardinality(SnapshotsOf(snaps, db))
                 f == CHOOSE g \in SnapshotAt(snaps, db, IF index >= n THEN n - 1 ELSE index) : TRUE
             IN  [ok |-> TRUE, live |-> f.data, mtime |-> f.mtime]

\* [ok, live, mtime]: mtime is the modification time of the file copied.
restore_from_snapshot(snaps, db, index, cur) ==
    IF index >= Cardinality(SnapshotsOf(snaps, db))
        THEN [ok |-> FALSE, live |-> cur, mtime |-> 0]
        ELSE LET f == CHOOSE g \in SnapshotAt(snaps, db, index) : TRUE
             IN  [ok |-> TRUE, live |-> f.data, mtime |-> f.mtime]

\* Where a copy `open(src,'rb')`, `open(dest,'wb')`, `dest.write(src.read())`
\* can raise: at one of the two opens, at the read (the destination exists and
\* is empty) or inside the write (the destination holds part of the bytes).
IoOutcomes == {"ok", "open_fails", "read_fails", "write_fails"}

\* A zero-byte file: SQLite opens it as an empty database.
EmptyFile == MaxVer + 1

\* A file that holds the first part of a database's bytes.
Truncated == 0 - (MaxVer + 1)

\* What open(dest, 'wb') and the write leave in the destination; NoFile
\* stands for "the destination was not touched".
Written(cur, io) ==
    CASE cur = NoFile \/ io = "open_fails" -> NoFile
      [] io = "read_fails" -> EmptyFile
      [] io = "write_fails" -> Truncated
      [] OTHER -> cur

\* [ok, snaps]: the result and the new content of SNAPSHOT_DIR.  The file name
\* carries the store and the time, so a second copy at the same time
\* overwrites the first.
create_snapshot(snaps, db, cur, t, io) ==
    IF Written(cur, io) = NoFile
        THEN [ok |-> FALSE, snaps |-> snaps]
        ELSE [ok |-> cur # NoFile /\ io = "ok",
              snaps |-> {f \in snaps : ~(f.db = db /\ f.mtime = t)}
                            \cup {[db |-> db, mtime |-> t, data |-> Written(cur, io)]}]

\* [ok, rep]: the result and the new content of REPLICA_DIR/<db>.
create_replica(rep, cur, io) ==
    IF Written(cur, io) = NoFile
        THEN [ok |-> FALSE, rep |-> rep]
        ELSE [ok |-> io = "ok", rep |-> Written(cur, io)]

----------------------------------------------------------------------------
(* backup_manager.py lines 167-185: integrity check and recovery of one store *)

\* One entry of the history: data is the store's content after the call.
Call(op, index, ok, data, mtime) ==
    [op |-> op, index |-> index, ok |-> ok, data |-> data, mtime |-> mtime]

\* for i in range(3): restore_from_snapshot, then the check, break on success
RECURSIVE SnapshotCascade(_, _, _, _, _)
SnapshotCascade(snaps, db, i, cur, calls) ==
    IF i >= 3 THEN [live |-> cur, calls |-> calls]
    ELSE LET r == restore_from_snapshot(snaps, db, i, cur)
             c1 == Append(calls, Call("snapshot", i, r.ok, r.live, r.mtime))
         IN  IF r.ok
                THEN LET c2 == Append(c1, Call("check", i, db_integrity_check(r.live), r.live, 0))
                     IN  IF db_integrity_check(r.live)
                            THEN [live |-> r.live, calls |-> c2]
                            ELSE SnapshotCascade(snaps, db, i + 1, r.live, c2)
                ELSE SnapshotCascade(snaps, db, i + 1, r.live, c1)

CheckAndRecover(snaps, db, cur, rep) ==
    LET c0 == <<Call("check", 0, db_integrity_check(cur), cur, 0)>>
    IN  IF db_integrity_check(cur)
            THEN [live |-> cur, calls |-> c0]
            ELSE LET r  == restore_from_replica(rep, cur)
                     c1 == Append(c0, Call("replica", 0, r.ok, r.live, 0))
                 IN  IF r.ok
                        THEN LET c2 == Append(c1, Call("check", 0, db_integrity_check(r.live), r.live, 0))
                             IN  IF db_integrity_check(r.live)
                                    THEN [live |-> r.live, calls |-> c2]
                                    ELSE SnapshotCascade(snaps, db, 0, r.live, c2)
                        ELSE SnapshotCascade(snaps, db, 0, r.live, c1)

----------------------------------------------------------------------------
(* backup_manager.py lines 161-214: one tick, phase by phase *)

NoTrace == [db \in Stores |-> <<>>]

\* The copies of the tick that returned False.
FailedCopies == {[op |-> copies[i].op, db |-> copies[i].db] : i \in {j \in 1..Len(copies) : ~copies[j].ok}}

\* Mutant of TickStart: both decisions read last_snapshot_time.
TickStart_OneKey ==
    /\ pc \in {"wait", "start"}
    /\ after_restart' = (pc = "start")
    /\ failed_before' = FailedCopies
    /\ \E d \in (IF pc = "start" THEN 0 ELSE 1)..MaxAdvance :
        /\ now + d <= MaxTime
        /\ now' = now + d
        /\ time_now' = now + d
    /\ last_snapshot' = get_action("last_snapshot_time", 0)
    /\ last_replica' = get_action("last_snapshot_time", 0)
    /\ idx' = 1
    /\ trace' = NoTrace
    /\ copies' = <<>>
    /\ pc' = "check"
    /\ UNCHANGED <<syncVars, copyVars, runVars, live, replica, snapshots, actions_data, faults>>

\* Mutant of TickStart: a started process does not look at the saved times.
TickStart_ColdStart ==
    /\ pc \in {"wait", "start"}
    /\ after_restart' = (pc = "start")
    /\ failed_before' = FailedCopies
    /\ \E d \in (IF pc = "start" THEN 0 ELSE 1)..MaxAdvance :
        /\ now + d <= MaxTime
        /\ now' = now + d
        /\ time_now' = now + d
    /\ last_snapshot' = IF pc = "start" THEN 0 ELSE get_action("last_snapshot_time", 0)
    /\ last_replica' = IF pc = "start" THEN 0 ELSE get_action("last_replica_time", 0)
    /\ idx' = 1
    /\ trace' = NoTrace
    /\ copies' = <<>>
    /\ pc' = "check"
    /\ UNCHANGED <<syncVars, copyVars, runVars, live, replica, snapshots, actions_data, faults>>

\* The top of the while loop.  A tick follows the previous one after
\* threading.Event().wait(interval); the first tick of a process follows its
\* start at once.
TickStart ==
    /\ pc \in {"wait", "start"}
    /\ after_restart' = (pc = "start")
    /\ failed_before' = FailedCopies
    /\ \E d \in (IF pc = "start" THEN 0 ELSE 1)..MaxAdvance :
        /\ now + d <= MaxTime
        /\ now' = now + d
        /\ time_now' = now + d
    /\ last_snapshot' = get_action("last_snapshot_time", 0)
    /\ last_replica' = get_action("last_replica_time", 0)
    /\ idx' = 1
    /\ trace' = NoTrace
    /\ copies' = <<>>
    /\ pc' = "check"
    /\ UNCHANGED <<syncVars, copyVars, runVars, live, replica, snapshots, actions_data, faults>>

\* Mutant of IntegrityPhase: the copies start after the first store's check.
IntegrityPhase_FirstStoreOnly ==
    /\ pc = "check"
    /\ idx <= Len(databases)
    /\ LET db == databases[idx]
           r  == CheckAndRecover(snapshots, db, live[db], replica[db])
       IN  /\ live' = [live EXCEPT ![db] = r.live]
           /\ trace' = [trace EXCEPT ![db] = r.calls]
    /\ idx' = idx + 1
    /\ pc' = "snapshot"
    /\ UNCHANGED <<after_restart, failed_before, syncVars, copyVars, runVars, replica, snapshots, actions_data, now, time_now,
                   last_snapshot, last_replica, faults, copies>>

\* Mutant of IntegrityPhase: a store whose recovery ends unhealthy ends the
\* loop over the stores.
IntegrityPhase_StopOnUnrecovered ==
    /\ pc = "check"
    /\ idx <= Len(databases)
    /\ LET db == databases[idx]
           r  == CheckAndRecover(snapshots, db, live[db], replica[db])
       IN  /\ live' = [live EXCEPT ![db] = r.live]
           /\ trace' = [trace EXCEPT ![db] = r.calls]
           /\ pc' = IF idx = Len(databases) \/ ~db_integrity_check(r.live)
                        THEN "snapshot" ELSE "check"
    /\ idx' = idx + 1
    /\ UNCHANGED <<after_restart, failed_before, syncVars, copyVars, runVars, replica, snapshots, actions_data, now, time_now,
                   last_snapshot, last_replica, faults, copies>>

IntegrityPhase ==
    /\ pc = "check"
    /\ idx <= Len(databases)
    /\ LET db == databases[idx]
           r  == CheckAndRecover(snapshots, db, live[db], replica[db])
       IN  /\ live' = [live EXCEPT ![db] = r.live]
           /\ trace' = [trace EXCEPT ![db] = r.calls]
    /\ idx' = idx + 1
    /\ pc' = IF idx = Len(databases) THEN "snapshot" ELSE "check"
    /\ UNCHANGED <<after_restart, failed_before, syncVars, copyVars, runVars, replica, snapshots, actions_data, now, time_now,
                   last_snapshot, last_replica, faults, copies>>

\* The I/O outcome of each store's copy in one phase.
IoChoices == [Stores -> IoOutcomes]

Failures(io) == Cardinality({db \in Stores : live[db] # NoFile /\ io[db] # "ok"})

CopyCall(op, db, ok) == [op |-> op, db |-> db, ok |-> ok, data |-> live[db]]

\* for db_file in databases: create_snapshot(db_file)
RECURSIVE SnapshotAll(_, _, _, _)
SnapshotAll(snaps, calls, io, i) ==
    IF i > Len(databases) THEN [snaps |-> snaps, calls |-> calls]
    ELSE LET db == databases[i]
             r  == create_snapshot(snaps, db, live[db], time_now, io[db])
         IN  SnapshotAll(r.snaps, Append(calls, CopyCall("create_snapshot", db, r.ok)), io, i + 1)

\* for db_file in databases: create_replica(db_file)
RECURSIVE ReplicaAll(_, _, _, _)
ReplicaAll(rep, calls, io, i) ==
    IF i > Len(databases) THEN [rep |-> rep, calls |-> calls]
    ELSE LET db == databases[i]
             r  == create_replica(rep[db], live[db], io[db])
         IN  ReplicaAll([rep EXCEPT ![db] = r.rep], Append(calls, CopyCall("create_replica", db, r.ok)), io, i + 1)

\* Lines 187-193
SnapshotPhase ==
    /\ pc = "snapshot"
    /\ IF time_now - last_snapshot >= DATABASE_ROLLOVER_INTERVAL
          THEN \E io \in IoChoices :
                /\ faults + Failures(io) <= MaxFaults
                /\ \A db \in Stores : live[db] = NoFile => io[db] = "ok"
                /\ faults' = faults + Failures(io)
                /\ snapshots' = SnapshotAll(snapshots, copies, io, 1).snaps
                /\ copies' = SnapshotAll(snapshots, copies, io, 1).calls
                /\ actions_data' = set_action(actions_data, "last_snapshot_time", time_now)
          ELSE UNCHANGED <<snapshots, actions_data, faults, copies>>
    /\ pc' = "replica"
    /\ UNCHANGED <<after_restart, failed_before, syncVars, copyVars, runVars, live, replica, now, idx, time_now, last_snapshot,
                   last_replica, trace>>

\* Lines 195-201
ReplicaPhase ==
    /\ pc = "replica"
    /\ IF time_now - last_replica >= DATABASE_REPLICATION_INTERVAL
          THEN \E io \in IoChoices :
                /\ faults + Failures(io) <= MaxFaults
                /\ \A db \in Stores : live[db] = NoFile => io[db] = "ok"
                /\ faults' = faults + Failures(io)
                /\ replica' = ReplicaAll(replica, copies, io, 1).rep
                /\ copies' = ReplicaAll(replica, copies, io, 1).calls
                /\ actions_data' = set_action(actions_data, "last_replica_time", time_now)
          ELSE UNCHANGED <<replica, actions_data, faults, copies>>
    /\ pc' = "prune"
    /\ UNCHANGED <<after_restart, failed_before, syncVars, copyVars, runVars, live, snapshots, now, idx, time_now, last_snapshot,
                   last_replica, trace>>

\* Mutant of Expired: `>` in place of `>=`.
Expired_StrictlyOlder(f) == time_now - f.mtime > DATABASE_ROLLOVER_MAX_AGE

\* time_now - time_created >= vars.DATABASE_ROLLOVER_MAX_AGE
Expired(f) == time_now - f.mtime >= DATABASE_ROLLOVER_MAX_AGE

\* Lines 203-212: every file of SNAPSHOT_DIR that has reached the max age is
\* removed; an os.remove that raises is logged and the file stays.
\* os.path.getmtime is called outside the try: when it raises for a file,
\* the files listed before it have been dealt with, the others have not,
\* and the exception leaves backup_manager.
PrunePhase ==
    /\ pc = "prune"
    /\ \/ /\ \E kept \in SUBSET {f \in snapshots : Expired(f)} :
                /\ faults + Cardinality(kept) <= MaxFaults
                /\ faults' = faults + Cardinality(kept)
                /\ snapshots' = {f \in snapshots : ~Expired(f)} \cup kept
          /\ pc' = "wait"
       \/ /\ faults < MaxFaults
          /\ faults' = faults + 1
          /\ \E f \in snapshots : \E visited \in SUBSET {g \in snapshots \ {f} : Expired(g)} :
                snapshots' = snapshots \ visited
          /\ pc' = "dead"
    /\ UNCHANGED <<after_restart, failed_before, syncVars, copyVars, runVars, live, replica, actions_data, now, idx, time_now,
                   last_snapshot, last_replica, trace, copies>>

----------------------------------------------------------------------------
(* The environment of the backup thread: the handlers that write a store,  *)
(* and damage to a store file from outside the program.                    *)

WriteStore(db) ==
    /\ live[db] > 0
    /\ live[db] < MaxVer
    /\ live' = [live EXCEPT ![db] = live[db] + 1]
    /\ UNCHANGED <<after_restart, failed_before, syncVars, copyVars, runVars, replica, snapshots, actions_data, now, pc, idx,
                   time_now, last_snapshot, last_replica, trace, faults, copies>>

DamageStore(db) ==
    /\ faults < MaxFaults
    /\ live[db] > 0
    /\ \E c \in {0 - live[db], NoFile} : live' = [live EXCEPT ![db] = c]
    /\ faults' = faults + 1
    /\ UNCHANGED <<after_restart, failed_before, syncVars, copyVars, runVars, replica, snapshots, actions_data, now, pc, idx,
                   time_now, last_snapshot, last_replica, trace, copies>>

AllOk == [db \in Stores |-> "ok"]

\* The process stops anywhere in the loop and is started again: the thread's
\* locals are lost, actions_data is loaded from actions.json (lines 20-27),
\* which set_action saved on every write (lines 38-41).  A stop inside the
\* snapshot or replica phase may come after the copies and before set_action.
Restart ==
    /\ faults < MaxFaults
    /\ faults' = faults + 1
    /\ pc # "start"
    /\ \E copied \in BOOLEAN :
        /\ copied => \/ (pc = "snapshot" /\ time_now - last_snapshot >= DATABASE_ROLLOVER_INTERVAL)
                      \/ (pc = "replica" /\ time_now - last_replica >= DATABASE_REPLICATION_INTERVAL)
        /\ snapshots' = IF copied /\ pc = "snapshot"
                            THEN SnapshotAll(snapshots, copies, AllOk, 1).snaps ELSE snapshots
        /\ replica' = IF copied /\ pc = "replica"
                          THEN ReplicaAll(replica, copies, AllOk, 1).rep ELSE replica
    /\ pc' = "start"
    /\ idx' = 1
    /\ time_now' = 0
    /\ last_snapshot' = 0
    /\ last_replica' = 0
    /\ trace' = NoTrace
    /\ copies' = <<>>
    /\ after_restart' = FALSE
    /\ failed_before' = {}
    /\ UNCHANGED <<syncVars, copyVars, runVars, live, actions_data, now>>

\* No copy is looked at block by block.
CopyIdle ==
    /\ files = [f \in {} |-> <<>>]
    /\ copy = [op |-> "none", step |-> "idle", buf |-> <<>>]
    /\ handler = [writing |-> FALSE, k |-> 0, v |-> 0]
    /\ seen = {}

\* The backup thread alone: the reconciliation task is not started.
SyncIdle ==
    /\ room_db = <<>>
    /\ ext_rooms = [n \in {} |-> 0]
    /\ spc = "idle"
    /\ ext_database = <<>>
    /\ db_json = <<>>
    /\ missing_locally = <<>>
    /\ missing_externally = <<>>
    /\ newer_locally = <<>>
    /\ newer_externally = <<>>
    /\ pos = 1
    /\ events = <<>>
    /\ injected = 0
    /\ passes = 0

BackupStart ==
    /\ live = [db \in Stores |-> 1]
    /\ replica = [db \in Stores |-> NoFile]
    /\ snapshots = {}
    /\ actions_data = [k \in {} |-> 0]
    /\ now = 0
    /\ pc = "wait"
    /\ idx = 1
    /\ time_now = 0
    /\ last_snapshot = 0
    /\ last_replica = 0
    /\ trace = NoTrace
    /\ faults = 0
    /\ copies = <<>>
    /\ after_restart = FALSE
    /\ failed_before = {}
    /\ CopyIdle
    /\ RunIdle

InitBackup == BackupStart /\ SyncIdle

NextBackup ==
    \/ TickStart
    \/ IntegrityPhase
    \/ SnapshotPhase
    \/ ReplicaPhase
    \/ PrunePhase
    \/ Restart
    \/ \E db \in Stores : WriteStore(db)
    \/ \E db \in Stores : DamageStore(db)

SpecBackup == InitBackup /\ [][NextBackup]_vars

----------------------------------------------------------------------------
(* The room store and the remote data set *)

MaxTs == 2
MaxPasses == 2
MaxInjected == 1

\* datetime.datetime.now().timestamp() during a pass: later than every stored
\* timestamp
SyncClock == MaxTs + 1

\* Python's None for an optional user id
None == 0

\* minimum number of valid image URLs for a push
MIN_IMAGES == 4
\* payload["images"] = picture_urls[:10]
MAX_IMAGES == 10

RoomNames == {"RoomA", "rooma", "RoomB"}

\* The order of the keys of the export.
NameOrder == <<"RoomA", "rooma", "RoomB">>

\* SQLite LOWER() on a room name
Lower(n) == IF n = "RoomA" THEN "rooma" ELSE IF n = "RoomB" THEN "roomb" ELSE n

Url(scheme, id) == [scheme |-> scheme, id |-> id]

\* url.startswith(("http://", "https://"))
IsHttp(url) == url.scheme \in {"http://", "https://"}

\* Mutant of valid_urls: no URL is filtered out.
valid_urls_Unfiltered(picture_urls) == picture_urls

\* [url for url in picture_urls if url.startswith(("http://", "https://"))]
valid_urls(picture_urls) == SelectSeq(picture_urls, IsHttp)

First(s, n) == SubSeq(s, 1, IF Len(s) < n THEN Len(s) ELSE n)

Row(room_name, picture_urls, description, tags, roomtype, last_updated, doc_by_user_id, edited_by_user_id, edits) ==
    [room_name |-> room_name, picture_urls |-> picture_urls,
     description |-> description, tags |-> tags, roomtype |-> roomtype,
     last_updated |-> last_updated, doc_by_user_id |-> doc_by_user_id,
     edited_by_user_id |-> edited_by_user_id, edits |-> edits]

\* room_name is the PRIMARY KEY: WHERE room_name = ? matches at most one row.
RowIndex(db, room_name) ==
    IF \E i \in 1..Len(db) : db[i].room_name = room_name
        THEN CHOOSE i \in 1..Len(db) : db[i].room_name = room_name
        ELSE 0

\* WHERE LOWER(room_name) = LOWER(?), fetchone(): the first matching row of
\* the table scan; <<>> stands for None.
get_roominfo(db, room_name) ==
    LET hits == {i \in 1..Len(db) : Lower(db[i].room_name) = Lower(room_name)}
    IN  IF hits = {} THEN <<>>
        ELSE <<db[CHOOSE i \in hits : \A j \in hits : i <= j]>>

\* Mutant of document_room: the UPDATE stamps last_updated with the time of the
\* write in place of the timestamp it was given.
document_room_StampNow(db, room_name, picture_urls, description, doc_by_user_id, tags, roomtype, timestamp, edited_by_user_id, clock) ==
    LET i == RowIndex(db, room_name)
    IN  IF i # 0
            THEN LET row == db[i]
                     edit_entry ==
                        [timestamp |-> IF timestamp = 0 THEN clock ELSE timestamp,
                         previous_room_name |-> room_name,
                         previous_picture_urls |-> row.picture_urls,
                         previous_tags |-> row.tags,
                         previous_description |-> row.description,
                         previous_roomtype |-> row.roomtype,
                         previous_doc_by_user_id |-> row.doc_by_user_id,
                         edited_by_user_id |->
                             IF edited_by_user_id # None
                                 THEN edited_by_user_id ELSE doc_by_user_id]
                 IN  [db EXCEPT ![i] =
                        [@ EXCEPT !.picture_urls = picture_urls,
                                  !.description = description,
                                  !.last_updated = clock,
                                  !.edits = Append(row.edits, edit_entry),
                                  !.tags = tags,
                                  !.roomtype = roomtype,
                                  !.edited_by_user_id =
                                      IF edited_by_user_id # None
                                          THEN edited_by_user_id ELSE doc_by_user_id]]
            ELSE Append(db, Row(room_name, picture_urls, description, tags,
                                roomtype, timestamp, doc_by_user_id, None, <<>>))

\* room_db_handler.document_room: an existing row gets an edit entry holding
\* its previous state and is updated; otherwise a row is inserted.
document_room(db, room_name, picture_urls, description, doc_by_user_id, tags, roomtype, timestamp, edited_by_user_id, clock) ==
    LET i == RowIndex(db, room_name)
    IN  IF i # 0
            THEN LET row == db[i]
                     edit_entry ==
                        [timestamp |-> IF timestamp = 0 THEN clock ELSE timestamp,
                         previous_room_name |-> room_name,
                         previous_picture_urls |-> row.picture_urls,
                         previous_tags |-> row.tags,
                         previous_description |-> row.description,
                         previous_roomtype |-> row.roomtype,
                         previous_doc_by_user_id |-> row.doc_by_user_id,
                         edited_by_user_id |->
                             IF edited_by_user_id # None
                                 THEN edited_by_user_id ELSE doc_by_user_id]
                 IN  [db EXCEPT ![i] =
                        [@ EXCEPT !.picture_urls = picture_urls,
                                  !.description = description,
                                  !.last_updated = timestamp,
                                  !.edits = Append(row.edits, edit_entry),
                                  !.tags = tags,
                                  !.roomtype = roomtype,
                                  !.edited_by_user_id =
                                      IF edited_by_user_id # None
                                          THEN edited_by_user_id ELSE doc_by_user_id]]
            ELSE Append(db, Row(room_name, picture_urls, description, tags,
                                roomtype, timestamp, doc_by_user_id, None, <<>>))

\* Mutant of replace_doc: edits=None is stored as an empty history even when
\* the row exists.
replace_doc_NoPreserve(db, room_name, picture_urls, description, doc_by_user_id, tags, roomtype, timestamp, edited_by_user_id, has_edits, edits) ==
    LET i  == RowIndex(db, room_name)
        ed == IF has_edits THEN edits ELSE <<>>
    IN  IF i # 0
            THEN [db EXCEPT ![i] =
                    [@ EXCEPT !.picture_urls = picture_urls,
                              !.description = description,
                              !.last_updated = timestamp,
                              !.doc_by_user_id = doc_by_user_id,
                              !.edits = ed,
                              !.tags = tags,
                              !.roomtype = roomtype,
                              !.edited_by_user_id = edited_by_user_id]]
            ELSE Append(db, Row(room_name, picture_urls, description, tags,
                                roomtype, timestamp, doc_by_user_id,
                                edited_by_user_id, ed))

\* room_db_handler.replace_doc; has_edits is "edits is not None".
replace_doc(db, room_name, picture_urls, description, doc_by_user_id, tags, roomtype, timestamp, edited_by_user_id, has_edits, edits) ==
    LET i  == RowIndex(db, room_name)
        ed == IF has_edits THEN edits
              ELSE IF i # 0 THEN db[i].edits ELSE <<>>
    IN  IF i # 0
            THEN [db EXCEPT ![i] =
                    [@ EXCEPT !.picture_urls = picture_urls,
                              !.description = description,
                              !.last_updated = timestamp,
                              !.doc_by_user_id = doc_by_user_id,
                              !.edits = ed,
                              !.tags = tags,
                              !.roomtype = roomtype,
                              !.edited_by_user_id = edited_by_user_id]]
            ELSE Append(db, Row(room_name, picture_urls, description, tags,
                                roomtype, timestamp, doc_by_user_id,
                                edited_by_user_id, ed))

\* external_api.export_room_to_api up to the POST: [sent, payload].
export_room_to_api(room_name, roomtype, picture_urls, description, doc_by_user_id, tags, last_edited_by, timestamp) ==
    [sent |-> ~(Len(picture_urls) < MIN_IMAGES),
     payload |-> [room_name |-> room_name,
                  description |-> description,
                  images |-> First(picture_urls, MAX_IMAGES),
                  documented_by |-> doc_by_user_id,
                  tags |-> tags,
                  roomtype |-> roomtype,
                  last_edited_by |-> last_edited_by,
                  last_edited |-> timestamp]]

\* The remote's upsert of an accepted payload.
RemoteUpsert(ext, payload) ==
    [n \in (DOMAIN ext) \cup {payload.room_name} |->
        IF n = payload.room_name
            THEN [images |-> payload.images,
                  description |-> payload.description,
                  tags |-> payload.tags,
                  roomtype |-> payload.roomtype,
                  documented_by |-> payload.documented_by,
                  last_edited |-> payload.last_edited,
                  last_edited_by |-> payload.last_edited_by]
            ELSE ext[n]]

\* export_database_api on success: the "rooms" mapping, as (name, record) pairs.
RECURSIVE ExportFrom(_, _)
ExportFrom(ext, i) ==
    IF i > Len(NameOrder) THEN <<>>
    ELSE (IF NameOrder[i] \in DOMAIN ext
             THEN <<[name |-> NameOrder[i], data |-> ext[NameOrder[i]]]>>
             ELSE <<>>) \o ExportFrom(ext, i + 1)

ExtNames(export) == {export[i].name : i \in 1..Len(export)}

ExtGet(export, name) ==
    (CHOOSE i \in 1..Len(export) : export[i].name = name)

----------------------------------------------------------------------------
(* sync_databases.py lines 38-62: the classification *)

Entry(name, data) == [name |-> name, data |-> data]

\* Mutant of ClassifyRemote: `>=` in place of `>` in the first comparison.
ClassifyRemote_GreaterEqual(db, e) ==
    LET local_room_data == get_roominfo(db, e.name)
    IN  IF local_room_data = <<>> THEN "missing_locally"
        ELSE IF local_room_data[1].last_updated >= e.data.last_edited
                THEN "newer_locally"
        ELSE IF e.data.last_edited > local_room_data[1].last_updated
                THEN "newer_externally"
        ELSE "in_sync"

\* The bucket of one exported room (lines 43-56).
ClassifyRemote(db, e) ==
    LET local_room_data == get_roominfo(db, e.name)
    IN  IF local_room_data = <<>> THEN "missing_locally"
        ELSE IF local_room_data[1].last_updated > e.data.last_edited
                THEN "newer_locally"
        ELSE IF e.data.last_edited > local_room_data[1].last_updated
                THEN "newer_externally"
        ELSE "in_sync"

RECURSIVE RemoteBucket(_, _, _, _)
RemoteBucket(db, export, bucket, i) ==
    IF i > Len(export) THEN <<>>
    ELSE (IF ClassifyRemote(db, export[i]) = bucket
             THEN <<Entry(export[i].name,
                          IF bucket = "newer_locally"
                              THEN get_roominfo(db, export[i].name)[1]
                              ELSE export[i].data)>>
             ELSE <<>>) \o RemoteBucket(db, export, bucket, i + 1)

\* lines 58-62: the local names that are no key of the export
RECURSIVE MissingExternally(_, _, _, _)
MissingExternally(db, json, export, i) ==
    IF i > Len(json) THEN <<>>
    ELSE (IF json[i].name \notin ExtNames(export)
             /\ get_roominfo(db, json[i].name) # <<>>
             THEN <<Entry(json[i].name, get_roominfo(db, json[i].name)[1])>>
             ELSE <<>>) \o MissingExternally(db, json, export, i + 1)

\* jsonify_room_db()["room_db"]: one entry per row, keyed by room_name
jsonify_room_db(db) == [i \in 1..Len(db) |-> Entry(db[i].room_name, db[i])]

----------------------------------------------------------------------------
(* sync_databases.py: one pass of the hourly task, one step per room *)

Ev(pass, name, bucket, outcome) ==
    [pass |-> pass, name |-> name, bucket |-> bucket, outcome |-> outcome]

Buckets == <<"missing_externally", "missing_locally", "newer_locally", "newer_externally">>

BucketOf(stage) ==
    CASE stage = "missing_externally" -> missing_externally
      [] stage = "missing_locally"    -> missing_locally
      [] stage = "newer_locally"      -> newer_locally
      [] stage = "newer_externally"   -> newer_externally
      [] OTHER                        -> <<>>

AfterLoop(stage) ==
    CASE stage = "missing_externally" -> "missing_locally"
      [] stage = "missing_locally"    -> "newer_locally"
      [] stage = "newer_locally"      -> "newer_externally"
      [] OTHER                        -> "done"

\* Mutant of SyncStart: a failed export is treated as an empty remote set.
SyncStart_NoEarlyReturn ==
    /\ spc \in {"idle", "done"}
    /\ passes < MaxPasses
    /\ passes' = passes + 1
    /\ \E success \in BOOLEAN :
        /\ ~success => injected < MaxInjected
        /\ injected' = IF success THEN injected ELSE injected + 1
        /\ LET export == IF success THEN ExportFrom(ext_rooms, 1) ELSE <<>>
               json == jsonify_room_db(room_db)
           IN  /\ ext_database' = export
               /\ db_json' = json
               /\ missing_locally' = RemoteBucket(room_db, export, "missing_locally", 1)
               /\ newer_locally' = RemoteBucket(room_db, export, "newer_locally", 1)
               /\ newer_externally' = RemoteBucket(room_db, export, "newer_externally", 1)
               /\ missing_externally' = MissingExternally(room_db, json, export, 1)
               /\ spc' = "missing_externally"
               /\ pos' = 1
               /\ events' = IF success THEN events
                            ELSE Append(events, Ev(passes + 1, "", "export", "failed"))
    /\ UNCHANGED <<backupVars, room_db, ext_rooms>>

\* Lines 27-67: the export, the early return on non-success, the classification.
SyncStart ==
    /\ spc \in {"idle", "done"}
    /\ passes < MaxPasses
    /\ passes' = passes + 1
    /\ \E success \in BOOLEAN :
        /\ ~success => injected < MaxInjected
        /\ injected' = IF success THEN injected ELSE injected + 1
        /\ IF ~success
             THEN /\ spc' = "done"
                  /\ events' = Append(events, Ev(passes + 1, "", "export", "failed"))
                  /\ ext_database' = <<>>
                  /\ db_json' = <<>>
                  /\ missing_locally' = <<>>
                  /\ missing_externally' = <<>>
                  /\ newer_locally' = <<>>
                  /\ newer_externally' = <<>>
                  /\ pos' = 1
             ELSE LET export == ExportFrom(ext_rooms, 1)
                      json == jsonify_room_db(room_db)
                  IN  /\ ext_database' = export
                      /\ db_json' = json
                      /\ missing_locally' = RemoteBucket(room_db, export, "missing_locally", 1)
                      /\ newer_locally' = RemoteBucket(room_db, export, "newer_locally", 1)
                      /\ newer_externally' = RemoteBucket(room_db, export, "newer_externally", 1)
                      /\ missing_externally' = MissingExternally(room_db, json, export, 1)
                      /\ spc' = "missing_externally"
                      /\ pos' = 1
                      /\ events' = events
    /\ UNCHANGED <<backupVars, room_db, ext_rooms>>

\* The end of one of the four for-loops.
LoopEnd ==
    /\ spc \in {Buckets[i] : i \in 1..Len(Buckets)}
    /\ pos > Len(BucketOf(spc))
    /\ spc' = AfterLoop(spc)
    /\ pos' = 1
    /\ UNCHANGED <<backupVars, room_db, ext_rooms, ext_database, db_json,
                   missing_locally, missing_externally, newer_locally,
                   newer_externally, events, injected, passes>>

PassFrame == UNCHANGED <<backupVars, ext_database, db_json, missing_locally,
                         missing_externally, newer_locally, newer_externally, passes>>

\* The POST of export_room_to_api: the remote stores the payload and answers
\* success, or the call ends in a non-success result (status, timeout, error).
Upload(name, local_data, urls, bucket, okName, failName) ==
    LET call == export_room_to_api(name, local_data.roomtype, urls,
                                   local_data.description, local_data.doc_by_user_id,
                                   local_data.tags, local_data.edited_by_user_id,
                                   local_data.last_updated)
    IN  IF ~call.sent
            THEN /\ events' = Append(events, Ev(passes, name, bucket, "not_sent"))
                 /\ UNCHANGED <<ext_rooms, injected>>
            ELSE \E success \in BOOLEAN :
                    /\ ~success => injected < MaxInjected
                    /\ injected' = IF success THEN injected ELSE injected + 1
                    /\ ext_rooms' = IF success THEN RemoteUpsert(ext_rooms, call.payload)
                                    ELSE ext_rooms
                    /\ events' = Append(events,
                                    Ev(passes, name, bucket,
                                       IF success THEN okName ELSE failName))

\* Lines 70-97.
UploadMissing ==
    /\ spc = "missing_externally"
    /\ pos <= Len(missing_externally)
    /\ LET room_name == missing_externally[pos].name
           local_data == missing_externally[pos].data
           urls == valid_urls(local_data.picture_urls)
       IN  IF Len(urls) < MIN_IMAGES
               THEN /\ events' = Append(events,
                                    Ev(passes, room_name, "missing_externally", "skipped"))
                    /\ UNCHANGED <<ext_rooms, injected>>
               ELSE Upload(room_name, local_data, urls, "missing_externally",
                           "uploaded", "upload_failed")
    /\ pos' = pos + 1
    /\ UNCHANGED <<room_db, spc>>
    /\ PassFrame

\* utils.global_reset: it returns, or an exception other than discord.NotFound
\* leaves fetch_message / message.delete and is not caught.
global_reset == {"returns", "raises"}

\* Lines 100-126.
DownloadMissing ==
    /\ spc = "missing_locally"
    /\ pos <= Len(missing_locally)
    /\ LET room_name == missing_locally[pos].name
           ext_data == missing_locally[pos].data
           urls == valid_urls(ext_data.images)
           local_room == get_roominfo(room_db, room_name)
       IN  \E written \in BOOLEAN :
            /\ ~written => injected < MaxInjected
            /\ injected' = IF written THEN injected ELSE injected + 1
            /\ room_db' = IF written
                            THEN replace_doc(room_db, room_name, urls,
                                             ext_data.description, ext_data.documented_by,
                                             ext_data.tags, ext_data.roomtype,
                                             ext_data.last_edited, ext_data.last_edited_by,
                                             local_room # <<>>,
                                             IF local_room # <<>> THEN local_room[1].edits
                                             ELSE <<>>)
                            ELSE room_db
            /\ spc' = IF written THEN spc ELSE "failed"
            /\ events' = Append(events,
                            Ev(passes, room_name, "missing_locally",
                               IF written THEN "downloaded" ELSE "raised"))
    /\ pos' = pos + 1
    /\ UNCHANGED ext_rooms
    /\ PassFrame

\* A local write of the pass followed by the message reset: the write raises,
\* or it is committed and the reset raises, or both return.
WriteAndReset(room_name, bucket, written_db, okName) ==
    \E outcome \in {"write_raises", "reset_raises", "returns"} :
        /\ outcome # "returns" => injected < MaxInjected
        /\ outcome = "reset_raises" => "raises" \in global_reset
        /\ injected' = IF outcome = "returns" THEN injected ELSE injected + 1
        /\ room_db' = IF outcome = "write_raises" THEN room_db ELSE written_db
        /\ spc' = IF outcome = "returns" THEN spc ELSE "failed"
        /\ events' = Append(events,
                        Ev(passes, room_name, bucket,
                           IF outcome = "returns" THEN okName ELSE "raised"))

\* Mutant of UpdateExternal: no gate on the filtered list; the room's
\* picture_urls go to export_room_to_api as they are.
UpdateExternal_PushAnyway ==
    /\ spc = "newer_locally"
    /\ pos <= Len(newer_locally)
    /\ LET room_name == newer_locally[pos].name
           local_data == newer_locally[pos].data
       IN  /\ Upload(room_name, local_data, local_data.picture_urls, "newer_locally",
                     "updated", "update_failed")
           /\ UNCHANGED <<room_db, spc>>
    /\ pos' = pos + 1
    /\ PassFrame

\* Lines 129-177.
UpdateExternal ==
    /\ spc = "newer_locally"
    /\ pos <= Len(newer_locally)
    /\ LET room_name == newer_locally[pos].name
           local_data == newer_locally[pos].data
           urls == valid_urls(local_data.picture_urls)
       IN  IF Len(urls) < MIN_IMAGES
               THEN LET ext_room_data == ext_database[ExtGet(ext_database, room_name)].data
                    IN  /\ WriteAndReset(room_name, "newer_locally",
                              replace_doc(room_db, room_name,
                                          valid_urls(ext_room_data.images),
                                          ext_room_data.description,
                                          ext_room_data.documented_by,
                                          ext_room_data.tags, ext_room_data.roomtype,
                                          ext_room_data.last_edited,
                                          ext_room_data.last_edited_by, FALSE, <<>>),
                              "reverted")
                        /\ UNCHANGED ext_rooms
               ELSE /\ Upload(room_name, local_data, urls, "newer_locally",
                              "updated", "update_failed")
                    /\ UNCHANGED <<room_db, spc>>
    /\ pos' = pos + 1
    /\ PassFrame

\* Lines 180-202.
UpdateLocal ==
    /\ spc = "newer_externally"
    /\ pos <= Len(newer_externally)
    /\ LET room_name == newer_externally[pos].name
           ext_data == newer_externally[pos].data
       IN  WriteAndReset(room_name, "newer_externally",
              document_room(room_db, room_name, valid_urls(ext_data.images),
                            ext_data.description, ext_data.documented_by,
                            ext_data.tags, ext_data.roomtype, ext_data.last_edited,
                            ext_data.last_edited_by, SyncClock),
              "updated_local")
    /\ pos' = pos + 1
    /\ UNCHANGED ext_rooms
    /\ PassFrame

----------------------------------------------------------------------------
(* Initial room sets *)

LocalUrls(kind) ==
    IF kind = "enough"
        THEN <<Url("https://", "l1"), Url("file", "l2"), Url("http://", "l3"),
               Url("https://", "l4"), Url("https://", "l5")>>
        ELSE <<Url("https://", "l1"), Url("file", "l2"), Url("file", "l3"),
               Url("http://", "l4")>>

RemoteUrls(kind) ==
    IF kind = "enough"
        THEN <<Url("https://", "r1"), Url("https://", "r2"), Url("http://", "r3"),
               Url("https://", "r4")>>
        ELSE <<Url("https://", "r1"), Url("file", "r2"), Url("https://", "r3"),
               Url("https://", "r4")>>

\* An edit entry left by an earlier local edit.
EarlierEdit(room_name) ==
    [timestamp |-> 0, previous_room_name |-> room_name,
     previous_picture_urls |-> <<>>, previous_tags |-> <<>>,
     previous_description |-> "first text", previous_roomtype |-> "Unclassified",
     previous_doc_by_user_id |-> 1, edited_by_user_id |-> 2]

Absent == [kind |-> "absent", ts |-> 0]

RoomChoices == {Absent} \cup [kind : {"enough", "few"}, ts : 1..MaxTs]

RECURSIVE LocalFrom(_, _)
LocalFrom(f, i) ==
    IF i > Len(NameOrder) THEN <<>>
    ELSE LET n == NameOrder[i]
         IN  (IF f[n] = Absent THEN <<>>
              ELSE <<Row(n, LocalUrls(f[n].kind), "local text", <<"local tag">>,
                         "local type", f[n].ts, 1, 2, <<EarlierEdit(n)>>)>>)
             \o LocalFrom(f, i + 1)

\* The remote record of RoomB carries a file path among its images.
RemoteKind(n) == IF n = "RoomB" THEN "mixed" ELSE "enough"

RemoteFrom(f) ==
    [n \in {m \in RoomNames : f[m] # Absent} |->
        [images |-> RemoteUrls(RemoteKind(n)), description |-> "remote text",
         tags |-> <<"remote tag">>, roomtype |-> "remote type",
         documented_by |-> 3, last_edited |-> f[n].ts, last_edited_by |-> None]]

InitSync ==
    /\ BackupStart
    /\ \E f \in [RoomNames -> RoomChoices] : room_db = LocalFrom(f, 1)
    /\ \E f \in [RoomNames -> {c \in RoomChoices : c.kind \in {"absent", "enough"}}] :
            ext_rooms = RemoteFrom(f)
    /\ spc = "idle"
    /\ ext_database = <<>>
    /\ db_json = <<>>
    /\ missing_locally = <<>>
    /\ missing_externally = <<>>
    /\ newer_locally = <<>>
    /\ newer_externally = <<>>
    /\ pos = 1
    /\ events = <<>>
    /\ injected = 0
    /\ passes = 0

NextSync ==
    \/ SyncStart
    \/ LoopEnd
    \/ UploadMissing
    \/ DownloadMissing
    \/ UpdateExternal
    \/ UpdateLocal

SpecSync == InitSync /\ [][NextSync]_vars

----------------------------------------------------------------------------
(* Properties of the backup scheduler *)

\* The restore calls (replica, snapshot) of a history, in order.
Restores(calls) == SelectSeq(calls, LAMBDA c : c.op # "check")

\* The checks of a history that passed.
Passed(calls) == SelectSeq(calls, LAMBDA c : c.op = "check" /\ c.ok)

\* The store failed its first check and no later check passed.
Exhausted(calls) == calls # <<>> /\ Passed(calls) = <<>>

CascadeShape(calls) ==
    LET rs == Restores(calls)
    IN  /\ calls[1].op = "check"
        /\ Len(rs) <= 4
        /\ \A k \in 1..Len(rs) :
              IF k = 1 THEN rs[k].op = "replica"
                       ELSE rs[k].op = "snapshot" /\ rs[k].index = k - 2
        \* the check is re-run on what each restore copied
        /\ \A k \in 1..Len(calls) :
              (calls[k].op # "check" /\ calls[k].ok) =>
                  /\ k < Len(calls)
                  /\ calls[k + 1].op = "check"
                  /\ calls[k + 1].data = calls[k].data
                  /\ calls[k + 1].ok = db_integrity_check(calls[k].data)
        \* nothing is attempted after a check that passed
        /\ \A k \in 1..Len(calls) :
              (calls[k].op = "check" /\ calls[k].ok) => k = Len(calls)
        \* the cascade does not stop early while the store is unhealthy
        /\ Exhausted(calls) => Len(rs) = 4

RECURSIVE LastCopied(_, _)
LastCopied(calls, before) ==
    IF calls = <<>> THEN before
    ELSE LET c == calls[Len(calls)]
         IN  IF c.op # "check" /\ c.ok THEN c.data
             ELSE LastCopied(SubSeq(calls, 1, Len(calls) - 1), before)

TickPhaseEnabled ==
    /\ (pc = "check") => ENABLED IntegrityPhase
    /\ (pc = "snapshot") => ENABLED SnapshotPhase
    /\ (pc = "replica") => ENABLED ReplicaPhase
    /\ (pc = "prune") => ENABLED PrunePhase
    /\ (pc = "wait" /\ now < MaxTime) => ENABLED TickStart

----------------------------------------------------------------------------
(* Properties of the reconciliation pass *)

\* The events of the pass in progress (or of the last pass, once it is over).
PassEvents(p) == SelectSeq(events, LAMBDA e : e.pass = p)

OutcomesOf(p, name, bucket) ==
    {events[i].outcome : i \in {j \in 1..Len(events) :
        /\ events[j].pass = p
        /\ events[j].name = name
        /\ events[j].bucket = bucket}}

\* The local rows as the pass read them at its start.
StartDb == [i \in 1..Len(db_json) |-> db_json[i].data]

ExactRow(db, name) == IF RowIndex(db, name) = 0 THEN <<>> ELSE <<db[RowIndex(db, name)]>>

ExportedRecord(name) ==
    IF name \in ExtNames(ext_database)
        THEN <<ext_database[ExtGet(ext_database, name)].data>>
        ELSE <<>>

RemoteRecord(name) == IF name \in DOMAIN ext_rooms THEN <<ext_rooms[name]>> ELSE <<>>

HttpCount(urls) ==
    Cardinality({i \in 1..Len(urls) : urls[i].scheme \in {"http://", "https://"}})

OnlyHttp(urls) == SelectSeq(urls, LAMBDA u : u.scheme \in {"http://", "https://"})

EntryOf(bucket, name) ==
    bucket[CHOOSE i \in 1..Len(bucket) : bucket[i].name = name].data

IsPrefix(s, t) == Len(s) <= Len(t) /\ SubSeq(t, 1, Len(s)) = s

SameCase(a, b) == Lower(a) = Lower(b)

\* No two distinct names of the local rows and the remote set differ only by
\* letter case.
CaseDistinct ==
    LET names == {room_db[i].room_name : i \in 1..Len(room_db)} \cup DOMAIN ext_rooms
    IN  \A a, b \in names : SameCase(a, b) => a = b

FailureOutcomes == {"failed", "upload_failed", "update_failed", "raised", "not_sent"}

CleanPass(p) == \A i \in 1..Len(events) :
                    events[i].pass = p => events[i].outcome \notin FailureOutcomes

SamePayload(remote, local) ==
    /\ remote.images = local.picture_urls
    /\ remote.description = local.description
    /\ remote.tags = local.tags
    /\ remote.roomtype = local.roomtype

AllBucketsEmpty ==
    /\ missing_locally = <<>>
    /\ missing_externally = <<>>
    /\ newer_locally = <<>>
    /\ newer_externally = <<>>

SecondRun == passes = 2 /\ CleanPass(1) /\ CaseDistinct

EditsOf(db, name) == IF RowIndex(db, name) = 0 THEN <<>> ELSE db[RowIndex(db, name)].edits

InBucket(bucket, name) == Cardinality({i \in 1..Len(bucket) : bucket[i].name = name})

BucketCount(name) ==
    InBucket(missing_locally, name) + InBucket(missing_externally, name)
    + InBucket(newer_locally, name) + InBucket(newer_externally, name)

LocalNames == {db_json[i].name : i \in 1..Len(db_json)}

ExportFailed ==
    \E i \in 1..Len(events) : events[i].pass = passes /\ events[i].bucket = "export"

\* C8: a pass whose export did not return success is over at once: no room is
\* classified, no step of the pass follows, and the local rows and the remote
\* set are as they were.
C8_FailedExportIsNoOp ==
    /\ [](ExportFailed =>
            /\ spc = "done"
            /\ AllBucketsEmpty
            /\ Len(PassEvents(passes)) = 1)
    /\ [][ExportFailed' => (room_db' = room_db /\ ext_rooms' = ext_rooms)]_vars

\* The export failed while a local room was missing remotely and a remote room
\* was missing locally.
C8_Witness ==
    /\ ExportFailed
    /\ \E i \in 1..Len(room_db) : room_db[i].room_name \notin DOMAIN ext_rooms
    /\ \E n \in DOMAIN ext_rooms : get_roominfo(room_db, n) = <<>>

PushBuckets == {"missing_externally", "newer_locally"}

C10_FailureDoesNotAbortBatch ==
    (\E i \in 1..Len(events) : events[i].outcome \in FailureOutcomes) =>
        /\ spc # "failed"
        /\ (spc = "done" =>
                \A b \in {Buckets[k] : k \in 1..Len(Buckets)} :
                    \A i \in 1..Len(BucketOf(b)) :
                        OutcomesOf(passes, BucketOf(b)[i].name, b) # {})

----------------------------------------------------------------------------
(* sync_databases.py lines 204-208: the counts printed when a pass ends *)

\* Uploaded / Downloaded / Updated externally / Updated locally
Report ==
    [uploaded |-> Len(missing_externally),
     downloaded |-> Len(missing_locally),
     updated_externally |-> Len(newer_locally),
     updated_locally |-> Len(newer_externally)]

\* The pass has reached line 204.
Reported == spc = "done" /\ passes > 0 /\ ~ExportFailed

CountOf(p, outcomes) ==
    Cardinality({i \in 1..Len(events) : events[i].pass = p /\ events[i].outcome \in outcomes})

\* C11 (as stated): the counts reported at the end of a pass are the numbers of
\* rooms that ended uploaded, downloaded, updated remotely and updated locally;
\* a room skipped by the gate or whose upsert failed is in none of them.
C11_CountsReflectOutcomes ==
    Reported =>
        /\ Report.uploaded = CountOf(passes, {"uploaded"})
        /\ Report.downloaded = CountOf(passes, {"downloaded"})
        /\ Report.updated_externally = CountOf(passes, {"updated"})
        /\ Report.updated_locally = CountOf(passes, {"updated_local"})

----------------------------------------------------------------------------
(* Properties of the scheduler's phases *)

ReachedMaxAge(f) == time_now - f.mtime >= DATABASE_ROLLOVER_MAX_AGE

\* C12: the prune phase of a tick creates no file, and the snapshot files that
\* have reached the max age and are still there when it ends are exactly those
\* whose removal failed: when no removal fails, none remains, for any store.
C12_RetentionBound ==
    [][(pc = "prune" /\ pc' = "wait") =>
        /\ snapshots' \subseteq snapshots
        /\ Cardinality({f \in snapshots' : ReachedMaxAge(f)}) = faults' - faults
        /\ (faults' = faults => \A f \in snapshots' : ~ReachedMaxAge(f))]_vars

\* A prune phase is over in which one removal failed (the only fault of the
\* run, so both stores had a snapshot of that age) and the file of that age of
\* the other store was removed.
C12_Witness ==
    /\ pc = "wait"
    /\ faults = 1
    /\ \E f \in snapshots :
        /\ ReachedMaxAge(f)
        /\ \E db \in Stores \ {f.db} :
            /\ SnapshotsOf(snapshots, db) # {}
            /\ \A g \in SnapshotsOf(snapshots, db) : ~ReachedMaxAge(g)

SnapshotStep == pc = "snapshot" /\ pc' = "replica"

ReplicaStep == pc = "replica" /\ pc' = "prune"

\* The step appended one call of op per registered store, in registration order.
Attempted(op) ==
    /\ Len(copies') = Len(copies) + Len(databases)
    /\ SubSeq(copies', 1, Len(copies)) = copies
    /\ \A i \in 1..Len(databases) :
        /\ copies'[Len(copies) + i].op = op
        /\ copies'[Len(copies) + i].db = databases[i]

Gated(op, key, interval) ==
    IF time_now - get_action(key, 0) >= interval
        THEN /\ Attempted(op)
             /\ actions_data' = set_action(actions_data, key, time_now)
        ELSE /\ copies' = copies
             /\ actions_data' = actions_data
             /\ snapshots' = snapshots
             /\ replica' = replica

NewSnapshots == snapshots' \ snapshots

\* The tick runs later than one interval after the recorded time, or is the
\* first tick of a restarted process.
Late(key, interval) == after_restart \/ time_now - get_action(key, 0) > interval

CatchUp(op, key, interval) ==
    /\ (copies' # copies \/ snapshots' # snapshots \/ replica' # replica) => time_now >= get_action(key, 0) + interval
    /\ time_now >= get_action(key, 0) + interval =>
        /\ Attempted(op)
        /\ \A db \in Stores : Cardinality(SnapshotsOf(NewSnapshots, db)) <= 1
        /\ get_action(key, 0)' = time_now

Retried(op, db) ==
    \E i \in (Len(copies) + 1)..Len(copies') : copies'[i].op = op /\ copies'[i].db = db

\* C15: a create_snapshot or create_replica that returned False for a store
\* in one tick is called again for that store in the next tick of the
\* scheduler.
C15_FailedCopyRetriedNextTick ==
    [][/\ SnapshotStep => \A db \in Stores : [op |-> "create_snapshot", db |-> db] \in failed_before => Retried("create_snapshot", db)
       /\ ReplicaStep => \A db \in Stores : [op |-> "create_replica", db |-> db] \in failed_before => Retried("create_replica", db)]_vars

\* The history of a store whose check and recovery have run to their end:
\* the last call is a check that passed, or the replica and the three newest
\* snapshots have all been tried.
Finished(calls) ==
    /\ calls # <<>>
    /\ calls[1].op = "check"
    /\ \/ calls[Len(calls)].op = "check" /\ calls[Len(calls)].ok
       \/ Len(Restores(calls)) = 4 /\ Passed(calls) = <<>>

\* C16: in every tick, when create_snapshot or create_replica is called for a
\* store, the integrity check of that store and, if it failed, its whole
\* recovery cascade have already run in that tick; no check or restore runs
\* in a tick after a copy of that tick.
C16_CheckBeforeCopy ==
    [][/\ (SnapshotStep \/ ReplicaStep) => \A i \in (Len(copies) + 1)..Len(copies') : Finished(trace[copies'[i].db]) /\ idx > Len(databases)
       /\ IntegrityPhase => copies = <<>>]_vars

\* A store went through a restore in this tick and was then copied.
C16_Witness ==
    /\ pc = "prune"
    /\ \E i, j \in 1..Len(copies) :
        /\ copies[i].db = copies[j].db
        /\ copies[i].op = "create_snapshot"
        /\ copies[j].op = "create_replica"
        /\ copies[i].ok
        /\ Len(Restores(trace[copies[i].db])) >= 2

----------------------------------------------------------------------------
(* db_integrity_check with connect_db as its lines 20-36 read                *)
(*                                                                         *)
(* SpecBackup takes the connection as opened.  Here connect_db is the       *)
(* function as written: it opens the connection, binds it to a local and   *)
(* ends, so its caller receives None.                                      *)

\* sqlite3.connect(db_path) or sqlite3.connect('file:<db_path>?mode=ro',
\* uri=True): [error, file].  A file that cannot be opened (io) or, with
\* mode=ro, does not exist raises sqlite3.OperationalError; without mode=ro a
\* missing file is created empty.  The bytes are not read at connect time.
sqlite3_connect(content, read_only, io) ==
    CASE io = "open_fails" -> [error |-> "OperationalError", file |-> content]
      [] content = NoFile /\ read_only -> [error |-> "OperationalError", file |-> NoFile]
      [] content = NoFile -> [error |-> "none", file |-> EmptyFile]
      [] OTHER -> [error |-> "none", file |-> content]

\* Mutant of connect_db: read_only is ignored.
connect_db_IgnoreReadOnly(content, read_only, io) ==
    [error |-> sqlite3_connect(content, FALSE, io).error, file |-> sqlite3_connect(content, FALSE, io).file, returns |-> "None"]

\* [error, file, returns]: the function has no return statement.
connect_db(content, read_only, io) ==
    [error |-> sqlite3_connect(content, read_only, io).error, file |-> sqlite3_connect(content, read_only, io).file, returns |-> "None"]

\* Lines 138-147: [raised, result, file].  sqlite3.OperationalError is a
\* sqlite3.DatabaseError and is caught; conn.cursor() on None raises
\* AttributeError, which no except clause of the function names.
db_integrity_check_as_written(content, io) ==
    LET c == connect_db(content, TRUE, io)
    IN  CASE c.error # "none" -> [raised |-> "none", result |-> FALSE, file |-> c.file]
          [] c.returns = "None" -> [raised |-> "AttributeError", result |-> FALSE, file |-> c.file]
          [] OTHER -> [raised |-> "none", result |-> db_integrity_check(c.file), file |-> c.file]

\* One entry of the history for a check: data is the store's content before
\* the call, io whether the file could be opened.
CheckCall(r, before, io) ==
    [op |-> "check", ok |-> r.result, raised |-> r.raised, data |-> before, io |-> io]

\* Where the loop of lines 167-185 goes once the store at idx is done with.
NextStore == IF idx = Len(databases) THEN "snapshot" ELSE "check"

\* Lines 168, 175 and 181: one call of db_integrity_check for the store at
\* idx.  An exception that leaves the call leaves backup_manager: the thread
\* ends.
CheckStore ==
    /\ pc = "check"
    /\ idx <= Len(databases)
    /\ \E io \in {"ok", "open_fails"} :
        LET db == databases[idx]
            r  == db_integrity_check_as_written(live[db], io)
            tried == Len(Restores(trace[db]))
        IN  /\ live' = [live EXCEPT ![db] = r.file]
            /\ trace' = [trace EXCEPT ![db] = Append(trace[db], CheckCall(r, live[db], io))]
            /\ pc' = CASE r.raised # "none" -> "dead"
                       [] r.result \/ tried = 4 -> NextStore
                       [] OTHER -> "restore"
            /\ idx' = IF r.raised = "none" /\ (r.result \/ tried = 4) THEN idx + 1 ELSE idx
    /\ UNCHANGED <<after_restart, failed_before, syncVars, copyVars, runVars, replica, snapshots, actions_data, now, time_now, last_snapshot, last_replica, faults, copies>>

\* Lines 172 and 180: the next restore of the cascade for the store at idx:
\* the replica, then the snapshots at positions 0, 1, 2.  The check follows a
\* restore that returned True.
RestoreStep ==
    /\ pc = "restore"
    /\ LET db == databases[idx]
           tried == Len(Restores(trace[db]))
           rr == restore_from_replica(replica[db], live[db])
           rs == restore_from_snapshot(snapshots, db, tried - 1, live[db])
           r  == IF tried = 0 THEN [ok |-> rr.ok, live |-> rr.live, mtime |-> 0] ELSE rs
           c  == IF tried = 0 THEN Call("replica", 0, r.ok, r.live, 0)
                              ELSE Call("snapshot", tried - 1, r.ok, r.live, r.mtime)
       IN  /\ live' = [live EXCEPT ![db] = r.live]
           /\ trace' = [trace EXCEPT ![db] = Append(trace[db], c)]
           /\ pc' = CASE r.ok -> "check"
                      [] tried = 3 -> NextStore
                      [] OTHER -> "restore"
           /\ idx' = IF ~r.ok /\ tried = 3 THEN idx + 1 ELSE idx
    /\ UNCHANGED <<after_restart, failed_before, syncVars, copyVars, runVars, replica, snapshots, actions_data, now, time_now, last_snapshot, last_replica, faults, copies>>

\* The contents the store files, replicas and snapshot directory start with.
StartContents == {NoFile, 1, 0 - 1}

InitAsWritten ==
    /\ SyncIdle
    /\ live \in [Stores -> StartContents]
    /\ replica \in [Stores -> {NoFile, 1}]
    /\ snapshots \in SUBSET {[db |-> db, mtime |-> 0, data |-> 1] : db \in Stores}
    /\ actions_data = [k \in {} |-> 0]
    /\ now = 0
    /\ pc = "wait"
    /\ idx = 1
    /\ time_now = 0
    /\ last_snapshot = 0
    /\ last_replica = 0
    /\ trace = NoTrace
    /\ faults = 0
    /\ copies = <<>>
    /\ after_restart = FALSE
    /\ failed_before = {}
    /\ CopyIdle
    /\ RunIdle

NextAsWritten ==
    \/ TickStart
    \/ CheckStore
    \/ RestoreStep
    \/ SnapshotPhase
    \/ ReplicaPhase
    \/ PrunePhase

SpecAsWritten == InitAsWritten /\ [][NextAsWritten]_vars

\* The last call made for the store.
LastCall(db) == trace'[db][Len(trace'[db])]

C18_UnopenableIsUnhealthy ==
    [][CheckStore =>
        LET c == LastCall(databases[idx])
        IN  (c.data = NoFile \/ c.io = "open_fails" \/ c.data < 0) =>
                /\ c.raised = "none"
                /\ ~c.ok
                /\ pc' # "dead"]_vars

\* C19: a create_snapshot that returns False leaves no new file for its
\* store in SNAPSHOT_DIR, at whichever step of the copy the error came.
C19_NoPartialSnapshot ==
    [][SnapshotStep =>
        \A i \in (Len(copies) + 1)..Len(copies') :
            ~copies'[i].ok => SnapshotsOf(NewSnapshots, copies'[i].db) = {}]_vars

----------------------------------------------------------------------------
(* The copies of backup_manager.py lines 44-126 next to the store handlers, *)
(* block by block.  A file is a sequence of blocks; a block is the version *)
(* of the database it belongs to.  The backup thread is a daemon thread    *)
(* (lines 40-41), the handlers run in the bot's own thread, and no lock is *)
(* shared between them; the locks SQLite takes order the handlers among    *)
(* themselves, not the plain open / read / write calls of the copies.      *)

NBlocks == 2

Whole(v) == [i \in 1..NBlocks |-> v]

Complete(c) == Len(c) = NBlocks /\ \A i \in 1..NBlocks : c[i] = c[1]

CopyOps == {"create_snapshot", "create_replica", "restore_from_replica", "restore_from_snapshot"}

\* open(os.path.join(<dir>, ...), 'rb')
Src(op) ==
    CASE op \in {"create_snapshot", "create_replica"} -> "live"
      [] op = "restore_from_replica" -> "replica"
      [] OTHER -> "snapshot"

\* open(os.path.join(<dir>, ...), 'wb')
Dest(op) ==
    CASE op = "create_snapshot" -> "snapshot"
      [] op = "create_replica" -> "replica"
      [] OTHER -> "live"

\* The two opens of a copy: mode 'wb' creates the destination or cuts it to
\* zero bytes.
CopyOpen(op) ==
    /\ copy.step = "idle"
    /\ copy' = [op |-> op, step |-> "read", buf |-> <<>>]
    /\ files' = [files EXCEPT ![Dest(op)] = <<>>]
    /\ UNCHANGED <<syncVars, runVars, live, replica, snapshots, actions_data, now, pc, idx, time_now, last_snapshot, last_replica, trace, faults, copies, after_restart, failed_before, handler, seen>>

\* src_file.read(): the blocks of the source, one after the other, up to the
\* end of the file.
CopyRead ==
    /\ copy.step = "read"
    /\ copy' = IF Len(copy.buf) < Len(files[Src(copy.op)])
                  THEN [copy EXCEPT !.buf = Append(@, files[Src(copy.op)][Len(copy.buf) + 1])]
                  ELSE [copy EXCEPT !.step = "write"]
    /\ UNCHANGED <<syncVars, runVars, live, replica, snapshots, actions_data, now, pc, idx, time_now, last_snapshot, last_replica, trace, faults, copies, after_restart, failed_before, files, handler, seen>>

\* dest_file.write(...) and the close at the end of the with block.
CopyWrite ==
    /\ copy.step = "write"
    /\ IF Len(files[Dest(copy.op)]) < Len(copy.buf)
          THEN /\ files' = [files EXCEPT ![Dest(copy.op)] = Append(@, copy.buf[Len(@) + 1])]
               /\ copy' = copy
          ELSE /\ files' = files
               /\ copy' = [op |-> "none", step |-> "idle", buf |-> <<>>]
    /\ UNCHANGED <<syncVars, runVars, live, replica, snapshots, actions_data, now, pc, idx, time_now, last_snapshot, last_replica, trace, faults, copies, after_restart, failed_before, handler, seen>>

\* A handler that reads the store (get_roominfo, jsonify_room_db): SQLite
\* keeps it out while a handler's commit is under way.
HandlerRead ==
    /\ ~handler.writing
    /\ seen' = seen \cup {files["live"]}
    /\ UNCHANGED <<syncVars, runVars, live, replica, snapshots, actions_data, now, pc, idx, time_now, last_snapshot, last_replica, trace, faults, copies, after_restart, failed_before, files, copy, handler>>

\* conn.commit() of a handler that writes the store (replace_doc lines
\* 147-162): the changed blocks are written in place, one after the other.
HandlerWrite ==
    /\ Len(files["live"]) = NBlocks
    /\ IF handler.writing
          THEN /\ files' = [files EXCEPT !["live"][handler.k + 1] = handler.v]
               /\ handler' = IF handler.k + 1 = NBlocks
                                THEN [writing |-> FALSE, k |-> 0, v |-> 0]
                                ELSE [handler EXCEPT !.k = @ + 1]
          ELSE /\ files["live"][1] < MaxVer
               /\ files' = [files EXCEPT !["live"][1] = @ + 1]
               /\ handler' = [writing |-> TRUE, k |-> 1, v |-> files["live"][1] + 1]
    /\ UNCHANGED <<syncVars, runVars, live, replica, snapshots, actions_data, now, pc, idx, time_now, last_snapshot, last_replica, trace, faults, copies, after_restart, failed_before, copy, seen>>

InitCopy ==
    /\ SyncIdle
    /\ RunIdle
    /\ live = [db \in Stores |-> 1]
    /\ replica = [db \in Stores |-> NoFile]
    /\ snapshots = {}
    /\ actions_data = [k \in {} |-> 0]
    /\ now = 0
    /\ pc = "wait"
    /\ idx = 1
    /\ time_now = 0
    /\ last_snapshot = 0
    /\ last_replica = 0
    /\ trace = NoTrace
    /\ faults = 0
    /\ copies = <<>>
    /\ after_restart = FALSE
    /\ failed_before = {}
    /\ \E v \in 1..MaxVer : files = [f \in {"live", "replica", "snapshot"} |-> IF f = "live" THEN Whole(v) ELSE Whole(1)]
    /\ copy = [op |-> "none", step |-> "idle", buf |-> <<>>]
    /\ handler = [writing |-> FALSE, k |-> 0, v |-> 0]
    /\ seen = {}

NextCopy ==
    \/ \E op \in CopyOps : CopyOpen(op)
    \/ CopyRead
    \/ CopyWrite
    \/ HandlerRead
    \/ HandlerWrite

SpecCopy == InitCopy /\ [][NextCopy]_vars

\* C20: while the backup thread copies a file and handlers read or write
\* the same store, what a handler reads from the store file and what the
\* backup thread reads from its source is a whole file of one version, never
\* a cut or half-written one.
C20_NoTornFile ==
    /\ \A c \in seen : Complete(c)
    /\ (copy.step = "write") => Complete(copy.buf)

\* The content of the store before the j-th call of a history.
Before(calls, j, start) == IF j = 1 THEN start ELSE calls[j - 1].data

\* The restore_from_snapshot calls of a history that returned True.
Copied(calls) == SelectSeq(calls, LAMBDA c : c.op = "snapshot" /\ c.ok)

C26_PruneErrorsIsolated ==
    [][(pc = "prune" /\ pc' # "start") =>
        /\ pc' = "wait"
        /\ Cardinality({f \in snapshots' : ReachedMaxAge(f)}) <= faults' - faults]_vars

----------------------------------------------------------------------------
(* The pull of a room that is missing locally *)

PassOver == passes > 0 /\ spc \in {"done", "failed"} /\ ~ExportFailed

Sends == {"uploaded", "upload_failed", "updated", "update_failed"}

HoldsRemote(local, remote) ==
    /\ local.picture_urls = OnlyHttp(remote.images)
    /\ local.description = remote.description
    /\ local.tags = remote.tags
    /\ local.roomtype = remote.roomtype
    /\ local.doc_by_user_id = remote.documented_by
    /\ local.last_updated = remote.last_edited

\* C23: once a pass is over, every room of the export for which the pass found
\* no local record, and whose own local write did not raise, is stored locally
\* under its name with the remote's http(s) images, description, tags,
\* roomtype, documented_by and last_edited, whatever the number of images, and
\* no upsert was sent for it in the pass.
C23_PullHasNoImageGate ==
    PassOver =>
        \A n \in ExtNames(ext_database) :
            (get_roominfo(StartDb, n) = <<>> /\ "raised" \notin OutcomesOf(passes, n, "missing_locally")) =>
                /\ ExactRow(room_db, n) # <<>>
                /\ HoldsRemote(ExactRow(room_db, n)[1], ExportedRecord(n)[1])
                /\ \A i \in 1..Len(events) :
                      (events[i].pass = passes /\ events[i].name = n) =>
                          events[i].outcome \notin Sends

\* The part of C23 that concerns one pull: a pull that returned stored the
\* remote's record, with no gate on the number of images and no upsert.
PullStoresRemote ==
    [][(DownloadMissing /\ spc' = spc) =>
        LET n == missing_locally[pos].name
        IN  /\ ExactRow(room_db', n) # <<>>
            /\ HoldsRemote(ExactRow(room_db', n)[1], missing_locally[pos].data)
            /\ ext_rooms' = ext_rooms]_vars

\* A pull has stored a room whose remote record has 3 valid images.
PulledThreeImages ==
    \E i \in 1..Len(events) :
        /\ events[i].pass = passes
        /\ events[i].outcome = "downloaded"
        /\ ExactRow(room_db, events[i].name) # <<>>
        /\ Len(ExactRow(room_db, events[i].name)[1].picture_urls) = 3

----------------------------------------------------------------------------
(* The push of a room that is missing remotely *)

SentCount(p, name) ==
    Cardinality({i \in 1..Len(events) :
        /\ events[i].pass = p
        /\ events[i].name = name
        /\ events[i].outcome \in Sends})

\* C24: once a pass is over, every local row it read whose name is no key of
\* the export and that has at least 4 http(s) image URLs was sent to the
\* upsert exactly once in the pass, and where the upsert returned success the
\* remote record of that name holds as images the row's http(s) URLs in their
\* order (at most the first 10) and as last_edited the row's last_updated.
C24_MissingRemotelyIsPushed ==
    PassOver =>
        \A i \in 1..Len(StartDb) :
            LET row == StartDb[i]
                n == row.room_name
            IN  (n \notin ExtNames(ext_database) /\ HttpCount(row.picture_urls) >= MIN_IMAGES) =>
                    /\ SentCount(passes, n) = 1
                    /\ "uploaded" \in OutcomesOf(passes, n, "missing_externally") =>
                          /\ RemoteRecord(n) # <<>>
                          /\ RemoteRecord(n)[1].images = First(OnlyHttp(row.picture_urls), MAX_IMAGES)
                          /\ RemoteRecord(n)[1].last_edited = row.last_updated

\* The part of C24 that concerns one push: an upload step that sent the room
\* it read and got success leaves the remote record holding the http(s) URLs
\* of the row it read, in order, at most the first 10, stamped with that row's
\* last_updated.
PushSendsValidUrls ==
    [][(UploadMissing /\ ext_rooms' # ext_rooms) =>
        LET n == missing_externally[pos].name
            local_data == missing_externally[pos].data
        IN  /\ HttpCount(local_data.picture_urls) >= MIN_IMAGES
            /\ n \in DOMAIN ext_rooms'
            /\ ext_rooms'[n].images = First(OnlyHttp(local_data.picture_urls), MAX_IMAGES)
            /\ ext_rooms'[n].last_edited = local_data.last_updated]_vars

\* A room missing remotely has been uploaded with 4 of its 5 URLs.
PushedMissingRoom ==
    \E i \in 1..Len(events) :
        /\ events[i].pass = passes
        /\ events[i].outcome = "uploaded"
        /\ events[i].name \in DOMAIN ext_rooms
        /\ Len(ext_rooms[events[i].name].images) = MIN_IMAGES

----------------------------------------------------------------------------
(* Room names that differ only by letter case *)

RowsOf(db, name) == {i \in 1..Len(db) : SameCase(db[i].room_name, name)}

OneRowPerName(db) == \A n \in RoomNames : Cardinality(RowsOf(db, n)) <= 1

Compared(name) == InBucket(newer_locally, name) + InBucket(newer_externally, name)

\* C29: a step of a pass leaves at most one local row per room name without
\* regard to letter case when there was at most one before it, and in a pass
\* no local row whose name differs from a remote name only by letter case is
\* both compared with that remote room (classified newer on one side) and
\* classified missing_externally.
C29_OneRecordPerRoom ==
    /\ [](\A i \in 1..Len(StartDb) : \A n \in ExtNames(ext_database) :
            LET local == StartDb[i].room_name
            IN  (SameCase(local, n) /\ local # n /\ get_roominfo(StartDb, n) = <<StartDb[i]>>) =>
                    ~(Compared(n) = 1 /\ InBucket(missing_externally, local) = 1))
    /\ [][OneRowPerName(room_db) => OneRowPerName(room_db')]_vars

----------------------------------------------------------------------------
(* Overwrites of a local room by the pass *)

LastEvent(evs) == evs[Len(evs)]

Overwrote(outcome) ==
    /\ Len(events') = Len(events) + 1
    /\ LastEvent(events').outcome = outcome
    /\ RowIndex(room_db, LastEvent(events').name) # 0

RecordsPrevious(entry, row) ==
    /\ entry.previous_picture_urls = row.picture_urls
    /\ entry.previous_description = row.description
    /\ entry.previous_tags = row.tags
    /\ entry.previous_roomtype = row.roomtype

\* C30: every step of a pass that replaces the payload of a row that exists
\* locally under the room's name (the pull-update of a newer_externally room,
\* or the fallback pull of a newer_locally room with fewer than 4 valid URLs)
\* appends exactly one entry to that row's edit history, holding the row's
\* previous pictures, description, tags and roomtype, and sets the row's
\* last_updated to the remote's last_edited.
C30_OverwriteRecordsPrevious ==
    [][(Overwrote("updated_local") \/ Overwrote("reverted")) =>
        LET n == LastEvent(events').name
            before == ExactRow(room_db, n)[1]
            after == ExactRow(room_db', n)[1]
        IN  /\ Len(after.edits) = Len(before.edits) + 1
            /\ IsPrefix(before.edits, after.edits)
            /\ RecordsPrevious(after.edits[Len(after.edits)], before)
            /\ after.last_updated = ExportedRecord(n)[1].last_edited]_vars

\* The part of C30 that the pull-update satisfies.
PullUpdateRecordsPrevious ==
    [][Overwrote("updated_local") =>
        LET n == LastEvent(events').name
            before == ExactRow(room_db, n)[1]
            after == ExactRow(room_db', n)[1]
        IN  /\ Len(after.edits) = Len(before.edits) + 1
            /\ IsPrefix(before.edits, after.edits)
            /\ RecordsPrevious(after.edits[Len(after.edits)], before)
            /\ after.last_updated = ExportedRecord(n)[1].last_edited]_vars

----------------------------------------------------------------------------
(* api/research_api.py: a handler that writes a room while a pass is suspended *)

MaxRequests == 1

\* Steps of the pass that reached an await (the POST of export_room_to_api or
\* utils.global_reset) and came back from it.
Awaited == {"uploaded", "upload_failed", "updated", "update_failed", "reverted", "updated_local"}

HandlerEvents == SelectSeq(events, LAMBDA e : e.bucket = "handler")

\* The wall clock of a request that carries no timestamp: later than every
\* timestamp stored so far.
RequestTime == MaxTs + 1

\* redocument_room, lines 161-190, served while the pass is suspended in the
\* await of the step it has just made: the room must be found by
\* get_roominfo, and document_room writes it under the requested name with
\* the clock as its timestamp.
redocument_room ==
    /\ spc \in {"missing_externally", "missing_locally", "newer_locally", "newer_externally"}
    /\ events # <<>>
    /\ LastEvent(events).pass = passes
    /\ LastEvent(events).outcome \in Awaited
    /\ Len(HandlerEvents) < MaxRequests
    /\ \E room_name \in RoomNames :
        /\ get_roominfo(room_db, room_name) # <<>>
        /\ room_db' = document_room(room_db, room_name, First(LocalUrls("enough"), MAX_IMAGES),
                                    "handler text", 1, <<"handler tag">>, "handler type",
                                    RequestTime, 2, RequestTime)
        /\ events' = Append(events, Ev(passes, room_name, "handler", "redocumented"))
    /\ UNCHANGED <<ext_rooms, spc, pos, injected>>
    /\ PassFrame

NextHandlers ==
    \/ NextSync
    \/ redocument_room

SpecHandlers == InitSync /\ [][NextHandlers]_vars

HandlerWrote(name) ==
    \E i \in 1..Len(events) :
        /\ events[i].pass = passes
        /\ events[i].bucket = "handler"
        /\ events[i].name = name

\* C28: once a handler has written a room during a pass, no later step of that
\* pass lowers the last_updated of the row stored under that name (the newer
\* local record is not overwritten with an older remote version), and an
\* upsert of that room made later in the pass carries the row as it is now
\* stored, not the version read at classification.
C28_NoStaleDecision ==
    [][\A n \in RoomNames :
        (HandlerWrote(n) /\ passes' = passes) =>
            /\ ExactRow(room_db', n) # <<>>
            /\ ExactRow(room_db', n)[1].last_updated >= ExactRow(room_db, n)[1].last_updated
            /\ (n \in DOMAIN ext_rooms' /\ RemoteRecord(n) # <<ext_rooms'[n]>>) =>
                    ext_rooms'[n].last_edited = ExactRow(room_db, n)[1].last_updated]_vars

----------------------------------------------------------------------------
(* action_json_handler.py: set_action and save_actions_json, step by step *)

MaxValue == 2

MaxCalls == 2

RunFrame == UNCHANGED <<syncVars, copyVars, live, replica, snapshots, now, pc, idx, time_now, last_snapshot, last_replica, trace, faults, copies, after_restart, failed_before>>

\* Line 40 (update_leaderboard.py 45-46, 57-58): actions_data[key] = value.
Assign(t) ==
    /\ callers[t].pc = "idle"
    /\ callers[t].calls < MaxCalls
    /\ \E key \in KeysOf(t), value \in 1..MaxValue :
        /\ actions_data' = set_action(actions_data, key, value)
        /\ callers' = [callers EXCEPT ![t] = [@ EXCEPT !.pc = "open", !.key = key, !.value = value]]
    /\ UNCHANGED actions_json
    /\ RunFrame

\* Line 31: open(ACTIONS_JSON_PATH, 'w') truncates the file.
OpenForWrite(t) ==
    /\ callers[t].pc = "open"
    /\ actions_json' = <<>>
    /\ callers' = [callers EXCEPT ![t] = [@ EXCEPT !.pc = "dump", !.buf = <<>>]]
    /\ UNCHANGED actions_data
    /\ RunFrame

\* Line 32: json.dump writes the map, as it is now, into the file object.
Dump(t) ==
    /\ callers[t].pc = "dump"
    /\ callers' = [callers EXCEPT ![t] = [@ EXCEPT !.pc = "close", !.buf = json_dump(actions_data)]]
    /\ UNCHANGED <<actions_data, actions_json>>
    /\ RunFrame

\* The end of the with block: the buffer is flushed and set_action returns.
Close(t) ==
    /\ callers[t].pc = "close"
    /\ actions_json' = WriteAt0(actions_json, callers[t].buf)
    /\ callers' = [callers EXCEPT ![t] = [@ EXCEPT !.pc = "idle", !.buf = <<>>, !.calls = @ + 1]]
    /\ UNCHANGED actions_data
    /\ RunFrame

Returned == \A t \in Callers : callers[t].pc = "idle"

\* The process is stopped between two calls and started again: the module
\* load of lines 20-27 reads the file (json.load raises on a file that is not
\* well-formed, and the process does not start); the threads' locals are lost.
ProcessRestart ==
    /\ Returned
    /\ \E t \in Callers : callers[t].key # ""
    /\ IF WellFormed(actions_json)
         THEN /\ actions_data' = json_load(actions_json)
              /\ callers' = [t \in Callers |-> [IdleCaller EXCEPT !.calls = callers[t].calls]]
         ELSE /\ actions_data' = [k \in {} |-> 0]
              /\ callers' = [t \in Callers |-> [callers[t] EXCEPT !.pc = "down"]]
    /\ UNCHANGED actions_json
    /\ RunFrame

Alone(t) == \A u \in Callers \ {t} : callers[u].pc = "idle"

InitRunState == BackupStart /\ SyncIdle

\* One caller at a time: a sequence of calls, and restarts between them.
NextRunState ==
    \/ \E t \in Callers : Alone(t) /\ Assign(t)
    \/ \E t \in Callers : Alone(t) /\ OpenForWrite(t)
    \/ \E t \in Callers : Alone(t) /\ Dump(t)
    \/ \E t \in Callers : Alone(t) /\ Close(t)
    \/ ProcessRestart

SpecRunState == InitRunState /\ [][NextRunState]_vars

\* The three threads, interleaved at every step.
NextRunStateThreads ==
    \/ \E t \in Callers : Assign(t)
    \/ \E t \in Callers : OpenForWrite(t)
    \/ \E t \in Callers : Dump(t)
    \/ \E t \in Callers : Close(t)

SpecRunStateThreads == InitRunState /\ [][NextRunStateThreads]_vars

Saved == WellFormed(actions_json) /\ json_load(actions_json) = actions_data

\* C21: whatever the interleaving of the backup thread, the scanner refresh
\* thread and the leaderboard task, once all of them have returned the file
\* actions.json is well-formed JSON and equal to the in-memory map, which
\* holds the last value written for every key.
C21_NoLostRunStateUpdate ==
    Returned =>
        /\ Saved
        /\ \A t \in Callers : callers[t].key # "" => get_action(callers[t].key, 0) = callers[t].value

\* C22: in a sequence of set_action calls, a call that has assigned holds its
\* value in the map, and once it has returned the file is the whole map; a
\* restart after the calls gives every key the last value set for it and a
\* key never set its default; no step removes a key.
C22_RunStateDurable ==
    /\ [](/\ \A t \in Callers : callers[t].key # "" => get_action(callers[t].key, 0) = callers[t].value
          /\ Returned => Saved)
    /\ [][/\ ProcessRestart => actions_data' = actions_data
          /\ \A i \in 1..Len(Keys) : Keys[i] \in DOMAIN actions_data => Keys[i] \in DOMAIN actions_data']_vars

\* After a restart that followed two calls for the same key with different
\* values, the key has the second value and a key never set has the default.
C22_Witness ==
    /\ \A t \in Callers : callers[t].key = "" /\ callers[t].pc = "idle"
    /\ callers["backup"].calls = 2
    /\ DOMAIN actions_data = {"last_snapshot_time"}
    /\ get_action("last_snapshot_time", 0) = 2
    /\ get_action("last_scanner_data_refresh", 0) = 0

====
